---- MODULE Spec2Model ----
(***************************************************************************)
(* Host-key verification of zssh (zsshlib/backup/ssh.go.back): the         *)
(* known_hosts file, the verification callbacks hostKeyCallback1653,       *)
(* hostKeyCallback_1113 and trustedHostKeyCallback, and the append         *)
(* routines addHostKey1653 and addKnownHost_1106; and the goroutines of    *)
(* GetToken, RemoveMfa (zsshlib/mfa-enrollment.go), Config and             *)
(* processOutput.                                                          *)
(*                                                                         *)
(* Strings are sequences of tokens: ":", "[" and "]" are tokens of their   *)
(* own, every other token stands for a run of characters holding none of   *)
(* them, so splitting on ":", removing "]" and net.SplitHostPort are       *)
(* computed as the code computes them.                                     *)
(***************************************************************************)
EXTENDS Integers, Sequences, FiniteSets, TLC

VARIABLES exists, file, mode, eol, cbs, hs, calls, flows, mfa, factory, shell

vars == <<exists, file, mode, eol, cbs, hs, calls, flows, mfa, factory, shell>>

(* The known_hosts file with what is done to it, and the goroutines of     *)
(* GetToken, RemoveMfa, Config and processOutput.                          *)
storeVars == <<exists, file, mode, eol, cbs, hs, calls>>

goVars == <<flows, mfa, factory, shell>>

----------------------------------------------------------------------------
(* Bounds of the model.                                                    *)

MaxCallbacks == 1

MaxHandshakes == 2

NumSalts == 1

Callbacks == 1..MaxCallbacks

Handshakes == 1..MaxHandshakes

Salts == 1..NumSalts

----------------------------------------------------------------------------
(* Strings.                                                                *)

IndexOf(s, t) ==
    IF \E j \in 1..Len(s) : s[j] = t
    THEN CHOOSE j \in 1..Len(s) : s[j] = t /\ \A k \in 1..(j - 1) : s[k] # t
    ELSE 0

LastIndexOf(s, t) ==
    IF \E j \in 1..Len(s) : s[j] = t
    THEN CHOOSE j \in 1..Len(s) : s[j] = t /\ \A k \in (j + 1)..Len(s) : s[k] # t
    ELSE 0

ContainsTok(s, t) == \E j \in 1..Len(s) : s[j] = t

Slice(s, from, to) == IF from > to THEN <<>> ELSE SubSeq(s, from, to)

(* strings.ReplaceAll(s, t, "")                                            *)
RECURSIVE ReplaceAllEmpty(_, _)
ReplaceAllEmpty(s, t) ==
    IF s = <<>> THEN <<>>
    ELSE IF Head(s) = t THEN ReplaceAllEmpty(Tail(s), t)
    ELSE <<Head(s)>> \o ReplaceAllEmpty(Tail(s), t)

(* strings.Split(s, t), given the place i of the first t (0: none)         *)
RECURSIVE SplitFrom(_, _, _)
SplitFrom(s, t, i) ==
    IF i = 0 THEN <<s>>
    ELSE <<Slice(s, 1, i - 1)>>
         \o SplitFrom(Slice(s, i + 1, Len(s)), t, IndexOf(Slice(s, i + 1, Len(s)), t))

StringsSplit(s, t) == SplitFrom(s, t, IndexOf(s, t))

(* strings.Join(parts, t)                                                  *)
RECURSIVE StringsJoin(_, _)
StringsJoin(parts, t) ==
    IF parts = <<>> THEN <<>>
    ELSE IF Len(parts) = 1 THEN parts[1]
    ELSE parts[1] \o <<t>> \o StringsJoin(Tail(parts), t)

SplitErr == [ok |-> FALSE, host |-> <<>>, port |-> <<>>]

(* net.SplitHostPort once the last ":" (at i) and the first "]" (at end)   *)
(* are found; 0 stands for none, n is the length.                          *)
SplitAt(hostport, i, end, n) ==
    IF i = 0 THEN SplitErr
    ELSE IF hostport[1] = "["
    THEN IF end = 0 THEN SplitErr
         ELSE IF end = n THEN SplitErr
         ELSE IF end + 1 # i THEN SplitErr
         ELSE IF ContainsTok(Slice(hostport, 2, n), "[") THEN SplitErr
         ELSE IF ContainsTok(Slice(hostport, end + 1, n), "]") THEN SplitErr
         ELSE [ok |-> TRUE, host |-> Slice(hostport, 2, end - 1),
               port |-> Slice(hostport, i + 1, n)]
    ELSE IF ContainsTok(Slice(hostport, 1, i - 1), ":") THEN SplitErr
    ELSE IF ContainsTok(hostport, "[") THEN SplitErr
    ELSE IF ContainsTok(hostport, "]") THEN SplitErr
    ELSE [ok |-> TRUE, host |-> Slice(hostport, 1, i - 1),
          port |-> Slice(hostport, i + 1, n)]

(* net.SplitHostPort                                                       *)
SplitHostPort(hostport) ==
    SplitAt(hostport, LastIndexOf(hostport, ":"), IndexOf(hostport, "]"), Len(hostport))

(* net.JoinHostPort                                                        *)
JoinHostPort(host, port) ==
    IF ContainsTok(host, ":")
    THEN <<"[">> \o host \o <<"]", ":">> \o port
    ELSE host \o <<":">> \o port

Port22 == <<"22">>

(* The entry knownhosts.Normalize gives for a host and a port.             *)
NormalizeHostPort(host, port) ==
    IF port # Port22 THEN <<"[">> \o host \o <<"]", ":">> \o port
    ELSE IF ContainsTok(host, ":") /\ ~(host # <<>> /\ host[1] = "[")
    THEN <<"[">> \o host \o <<"]">>
    ELSE host

NormalizeSplit(address, sp) ==
    NormalizeHostPort(IF sp.ok THEN sp.host ELSE address,
                      IF sp.ok THEN sp.port ELSE Port22)

(* knownhosts.Normalize: an address that does not split is a host on port  *)
(* 22.                                                                     *)
Normalize(address) == NormalizeSplit(address, SplitHostPort(address))

----------------------------------------------------------------------------
(* Keys and the fields of a known_hosts line.                              *)

NoKey == [type |-> "none", data |-> "none"]

(* A field of a line: a plain string, a hashed host pattern                *)
(* |1|salt|HMAC-SHA1(salt, s), or the base64 text of a marshalled key.     *)
(* The HMAC is kept as the pair (salt, s) it was computed from: two        *)
(* digests are equal exactly when salt and message are.                    *)
StrField(s) == [tag |-> "str", s |-> s, salt |-> 0, key |-> NoKey]

HashField(salt, s) == [tag |-> "hash", s |-> s, salt |-> salt, key |-> NoKey]

(* base64.StdEncoding.EncodeToString(key.Marshal()); the marshalled key    *)
(* holds its own type.                                                     *)
Base64Key(key) == [tag |-> "b64", s |-> <<>>, salt |-> 0, key |-> key]

(* base64 decoding followed by ssh.ParsePublicKey                          *)
ParseKeyBlob(f) ==
    IF f.tag = "b64" /\ f.key # NoKey
    THEN [ok |-> TRUE, key |-> f.key]
    ELSE [ok |-> FALSE, key |-> NoKey]

(* knownhosts.Line([]string{address}, key): the normalized address, the    *)
(* key type and the base64 key, separated by single spaces.                *)
KnownhostsLine(address, key) ==
    <<StrField(Normalize(address)), StrField(<<key.type>>), Base64Key(key)>>

(* knownhosts.HashHostname(hostname) with the salt drawn: the hostname is  *)
(* hashed as given, it is not normalized.                                  *)
KnownhostsHashHostname(hostname, salt) == HashField(salt, hostname)

----------------------------------------------------------------------------
(* Reading the file: knownhosts.New / hostKeyDB.Read / parseLine.          *)

IsBlankField(f) == f.tag = "str" /\ f.s = <<>>

(* bytes.TrimSpace on a line given as its space-separated fields           *)
RECURSIVE DropLeadingBlank(_)
DropLeadingBlank(fields) ==
    IF fields = <<>> THEN <<>>
    ELSE IF IsBlankField(Head(fields)) THEN DropLeadingBlank(Tail(fields))
    ELSE fields

RECURSIVE DropTrailingBlank(_)
DropTrailingBlank(fields) ==
    IF fields = <<>> THEN <<>>
    ELSE IF IsBlankField(fields[Len(fields)])
    THEN DropTrailingBlank(SubSeq(fields, 1, Len(fields) - 1))
    ELSE fields

TrimSpace(fields) == DropTrailingBlank(DropLeadingBlank(fields))

NoMatcher == [hashed |-> FALSE, host |-> <<>>, port |-> <<>>, salt |-> 0]

ParseErr == [ok |-> FALSE, skip |-> FALSE, matcher |-> NoMatcher, key |-> NoKey]

MatcherOfSplit(p, sp) ==
    IF p = <<>> THEN [ok |-> FALSE, m |-> NoMatcher]
    ELSE IF ~sp.ok THEN [ok |-> FALSE, m |-> NoMatcher]
    ELSE [ok |-> TRUE,
          m |-> [hashed |-> FALSE, host |-> sp.host, port |-> sp.port, salt |-> 0]]

(* newHostnameMatcher for a single pattern: "[host]:port", or a host on    *)
(* port 22.                                                                *)
HostnameMatcher(p) ==
    MatcherOfSplit(p, SplitHostPort(IF p # <<>> /\ p[1] = "[" THEN p
                                    ELSE JoinHostPort(p, Port22)))

PlainEntry(hm, key) ==
    IF ~hm.ok THEN ParseErr
    ELSE [ok |-> TRUE, skip |-> FALSE, key |-> key, matcher |-> hm.m]

(* hostKeyDB.parseLine: a pattern that starts with "|" is a hashed host.   *)
ParseEntry(pat, blob) ==
    IF ~blob.ok THEN ParseErr
    ELSE IF pat.tag = "hash"
    THEN [ok |-> TRUE, skip |-> FALSE, key |-> blob.key,
          matcher |-> [hashed |-> TRUE, host |-> pat.s, port |-> <<>>,
                       salt |-> pat.salt]]
    ELSE IF pat.tag # "str" THEN ParseErr
    ELSE PlainEntry(HostnameMatcher(pat.s), blob.key)

(* parseLine: a line short of a host pattern, a key type and a key blob is *)
(* an error ("missing host pattern", "missing key type pattern"); blank    *)
(* lines are skipped by Read.                                              *)
ParseFields(fields) ==
    IF fields = <<>> THEN [ParseErr EXCEPT !.ok = TRUE, !.skip = TRUE]
    ELSE IF Len(fields) < 2 THEN ParseErr
    ELSE IF Len(fields) < 3 THEN ParseErr
    ELSE ParseEntry(fields[1], ParseKeyBlob(fields[3]))

ParseLine(rawFields) == ParseFields(TrimSpace(rawFields))

ReadCons(first, rest) ==
    IF ~first.ok THEN [ok |-> FALSE, db |-> <<>>]
    ELSE IF ~rest.ok THEN rest
    ELSE IF first.skip THEN rest
    ELSE [ok |-> TRUE,
          db |-> <<[matcher |-> first.matcher, key |-> first.key]>> \o rest.db]

(* hostKeyDB.Read: the first line that does not parse fails the load.      *)
RECURSIVE ReadLines(_)
ReadLines(lines) ==
    IF lines = <<>> THEN [ok |-> TRUE, db |-> <<>>]
    ELSE ReadCons(ParseLine(Head(lines)), ReadLines(Tail(lines)))

----------------------------------------------------------------------------
(* Lookup: hostKeyDB.check / checkAddr.                                    *)

(* keyDBLine.match: a plain pattern matches host and port, a hashed one    *)
(* the HMAC of the normalized "host:port".                                 *)
LineMatches(m, a) ==
    IF m.hashed
    THEN m.host = Normalize(JoinHostPort(a.host, a.port))
    ELSE m.host = a.host /\ m.port = a.port

MatchingLines(db, a) == {j \in 1..Len(db) : LineMatches(db[j].matcher, a)}

(* The first matching line's key of each key type.                         *)
FirstOfType(db, matching) ==
    {db[j].key : j \in {i \in matching :
        \A k \in matching : k < i => db[k].key.type # db[i].key.type}}

KnownKeys(db, a) == FirstOfType(db, MatchingLines(db, a))

LookupResult(kind, want) == [kind |-> kind, want |-> want]

(* checkAddr: no key known for the address, the key known, or other keys   *)
(* known (KeyError.Want).                                                  *)
CheckKnown(known, key) ==
    IF known = {} THEN LookupResult("unknown", {})
    ELSE IF key \in known THEN LookupResult("found", {})
    ELSE LookupResult("mismatch", known)

CheckAddr(db, a, key) == CheckKnown(KnownKeys(db, a), key)

CheckSplit(db, address, r, h, key) ==
    IF ~r.ok THEN LookupResult("error", {})
    ELSE IF address # <<>> /\ ~h.ok THEN LookupResult("error", {})
    ELSE CheckAddr(db, IF address # <<>> THEN [host |-> h.host, port |-> h.port]
                       ELSE [host |-> r.host, port |-> r.port], key)

(* The callback knownhosts.New returns (hostKeyDB.check): the remote       *)
(* address must split, and a non-empty hostname is preferred to it.        *)
KnownhostsCheck(db, address, remoteStr, key) ==
    CheckSplit(db, address, SplitHostPort(remoteStr), SplitHostPort(address), key)

------------------
(* The inputs of a handshake.                                              *)

Keys ==
    {[type |-> "t1", data |-> "a"], [type |-> "t1", data |-> "b"],
     [type |-> "t2", data |-> "a"]}

NilAddr == [isNil |-> TRUE, str |-> <<>>]

Addr(s) == [isNil |-> FALSE, str |-> s]

TcpAddr == Addr(<<"h1", ":", "22">>)

(* The ziti edge address                                                   *)
(* "ziti-edge-router connId=1, logical=ziti-sdk[router=tls:h1:22]".        *)
ZitiAddr == Addr(<<"conn1", "[", "tls", ":", "h1", ":", "22", "]">>)

(* The peers of a handshake: the hostname the SSH layer hands to the       *)
(* callback (the dial address: "host:port", a bare host, or the empty      *)
(* string that Dial passes) and the remote net.Addr of the connection (a   *)
(* TCP address, the ziti edge address, or none).                           *)
Peers ==
    {[hostname |-> <<"h1", ":", "22">>, remote |-> TcpAddr],
     [hostname |-> <<"h1">>, remote |-> TcpAddr],
     [hostname |-> <<>>, remote |-> TcpAddr],
     [hostname |-> <<>>, remote |-> ZitiAddr],
     [hostname |-> <<>>, remote |-> NilAddr]}

(* zitiEdgeConnAdapter.String: the last two ":"-separated parts, joined,   *)
(* with every "]" removed; it panics on a nil address and on a string      *)
(* without ":".                                                            *)
LastTwo(parts, n) ==
    IF n < 2 THEN [panic |-> TRUE, s |-> <<>>]
    ELSE [panic |-> FALSE,
          s |-> ReplaceAllEmpty(StringsJoin(<<parts[n - 1], parts[n]>>, ":"), "]")]

LastTwoOf(parts) == LastTwo(parts, Len(parts))

AdapterString(remote) ==
    IF remote.isNil THEN [panic |-> TRUE, s |-> <<>>]
    ELSE LastTwoOf(StringsSplit(remote.str, ":"))

(* The operator's line, as bufio.Reader.ReadString returns it, delimiter   *)
(* included.                                                               *)
Answers == {<<"y", "\n">>, <<"Y", "e", "s", "\n">>, <<"n", "o", "\n">>, <<"\n">>}

ToLowerTok(t) == IF t = "Y" THEN "y" ELSE t

(* An operator's answer read as yes unless it starts with "n": what the    *)
(* test of the first letter is told apart from by C9.                      *)
AnswerIsNotNo(answer) == answer[1] # "n"

(* strings.ToLower(answer)[:1] == "y"                                      *)
AnswerIsYes(answer) == ToLowerTok(answer[1]) = "y"

(* A store a person may have left behind: empty, a valid entry, or a line  *)
(* that does not parse followed by a valid entry.                          *)
ValidLine == KnownhostsLine(<<"h1", ":", "22">>, [type |-> "t1", data |-> "a"])

JunkLine == <<StrField(<<"junk">>)>>

InitialStores == {<<>>, <<ValidLine>>, <<JunkLine, ValidLine>>}

----------------------------------------------------------------------------
(* State.                                                                  *)

IdleCallback ==
    [pc |-> "unused", variant |-> "none", db |-> <<>>, acceptAll |-> FALSE,
     loadErr |-> FALSE, err |-> "none", created |-> FALSE, pre |-> FALSE]

IdleHandshake ==
    [pc |-> "idle", variant |-> "none", cb |-> 0, hostname |-> <<>>,
     remote |-> NilAddr, key |-> NoKey, res |-> "none", want |-> {},
     answer |-> <<>>, prompted |-> FALSE, appended |-> FALSE, ioErr |-> FALSE,
     seen |-> 0, out |-> "none"]

(* The permission bits of the file, as octal text; a file that is not      *)
(* there has none.                                                         *)
NoMode == "none"

(* The umask of the process.                                               *)
Umasks == {"022", "077"}

(* perm &^ umask, for the permissions the code asks for (0600 and the 0666 *)
(* of os.Create).                                                          *)
FileMode(perm, umask) ==
    IF perm = "0666" THEN (IF umask = "022" THEN "0644" ELSE "0600")
    ELSE perm

(* open with O_CREATE: a file that is there keeps its mode.                *)
CreatedMode(perm, umask) == IF exists THEN mode ELSE FileMode(perm, umask)

(* os.OpenFile(path, ...|os.O_CREATE, 0600); no umask in Umasks takes a    *)
(* bit of 0600 away.                                                       *)
OpenFileMode0600 == IF exists THEN mode ELSE "0600"

(* GetToken: the caller, the goroutine that runs the code flow, the        *)
(* context and what was returned.                                          *)
MaxFlows == 2

Flows == 1..MaxFlows

IdleFlow ==
    [main |-> "idle", gor |-> "none", ctxDone |-> FALSE, tokens |-> "none",
     ret |-> "none", returns |-> 0]

(* RemoveMfa: the caller, the goroutines the listener has spawned, and the *)
(* calls of RemoveZitiMfa.                                                 *)
MaxFires == 3

Fires == 1..MaxFires

IdleMfa ==
    [main |-> "idle", fired |-> 0, g |-> [i \in Fires |-> "none"],
     removes |-> 0, succeeded |-> 0, fatal |-> FALSE]

(* SshConfigFactoryImpl: resolveAuthOnce, authMethods and the callers of   *)
(* Config.                                                                 *)
MaxConfigCalls == 3

ConfigCalls == 1..MaxConfigCalls

IdleConfigCall == [pc |-> "idle", waited |-> FALSE, ret |-> <<>>]

IdleFactory ==
    [once |-> "new", authMethods |-> <<>>, resolved |-> 0,
     callers |-> [k \in ConfigCalls |-> IdleConfigCall]]

(* RemoteShell with a command: the caller, the WaitGroup, the two copies   *)
(* with the chunks each has still to read, and the order they ended in.    *)
MaxChunks == 2

Streams == {"stdout", "stderr"}

IdleShell ==
    [main |-> "idle", wg |-> 0, copy |-> [s \in Streams |-> "none"],
     left |-> [s \in Streams |-> 0], read |-> [s \in Streams |-> 0],
     order |-> <<>>, fatal |-> FALSE]

Init ==
    /\ exists \in BOOLEAN
    /\ file \in (IF exists THEN InitialStores ELSE {<<>>})
    /\ mode = (IF exists THEN "0600" ELSE NoMode)
    /\ eol = TRUE
    /\ cbs = [c \in Callbacks |-> IdleCallback]
    /\ hs = [h \in Handshakes |-> IdleHandshake]
    /\ calls = <<>>
    /\ flows = [f \in Flows |-> IdleFlow]
    /\ mfa = IdleMfa
    /\ factory = IdleFactory
    /\ shell = IdleShell

LoadOf(iok, r) ==
    IF ~exists THEN [err |-> "notexist", db |-> <<>>]
    ELSE IF ~iok THEN [err |-> "io", db |-> <<>>]
    ELSE IF ~r.ok THEN [err |-> "parse", db |-> <<>>]
    ELSE [err |-> "none", db |-> r.db]

(* knownhosts.New(path): the file is opened and every line parsed.         *)
LoadStore(iok) == LoadOf(iok, ReadLines(file))

Finish(h, out) == [hs EXCEPT ![h].pc = "done", ![h].out = out]

(* Handshakes and callbacks are numbered in the order they start.          *)
CanBegin(h) == hs[h].pc = "idle" /\ \A g \in 1..(h - 1) : hs[g].pc # "idle"

CanCreate(c) == cbs[c].pc = "unused" /\ \A d \in 1..(c - 1) : cbs[d].pc # "unused"

----------------------------------------------------------------------------
(* hostKeyCallback1653 and initializeKnownHosts1653.                       *)

Loaded1653(rec, l) ==
    [rec EXCEPT !.variant = "cb1653",
                !.pc = IF l.err = "none" THEN "ready"
                       ELSE IF l.err = "notexist" THEN "create"
                       ELSE "nil",
                !.db = l.db,
                !.err = IF l.err = "notexist" THEN "none" ELSE l.err,
                !.loadErr = l.err \notin {"none", "notexist"}]

Reloaded1653(rec, l) ==
    [rec EXCEPT !.pc = IF l.err = "none" THEN "ready" ELSE "nil",
                !.db = l.db,
                !.err = l.err,
                !.loadErr = l.err # "none"]

(* initializeKnownHosts1653, first knownhosts.New: a store that loads      *)
(* gives the callback, a missing file goes on to be created, any other     *)
(* error leaves hostKeyCallback1653 returning a nil callback.              *)
NewCallback1653(c) ==
    /\ CanCreate(c)
    /\ \E iok \in BOOLEAN :
         cbs' = [cbs EXCEPT ![c] = Loaded1653(@, LoadStore(iok))]
    /\ UNCHANGED <<exists, file, hs, mode, eol, calls, goVars>>

(* os.MkdirAll and os.Create: os.Create truncates a file that is there.    *)
Create1653(c) ==
    /\ cbs[c].pc = "create"
    /\ \E iok \in BOOLEAN :
         IF iok
         THEN /\ exists' = TRUE
              /\ \E umask \in Umasks : mode' = CreatedMode("0666", umask)
              /\ file' = <<>>
              /\ cbs' = [cbs EXCEPT ![c].pc = "reload", ![c].created = TRUE]
         ELSE /\ cbs' = [cbs EXCEPT ![c].pc = "nil", ![c].loadErr = TRUE,
                                    ![c].err = "io"]
              /\ UNCHANGED <<exists, file, mode>>
    /\ UNCHANGED <<hs, eol, calls, goVars>>

(* The knownhosts.New that ends initializeKnownHosts1653.                  *)
Reload1653(c) ==
    /\ cbs[c].pc = "reload"
    /\ \E iok \in BOOLEAN :
         cbs' = [cbs EXCEPT ![c] = Reloaded1653(@, LoadStore(iok))]
    /\ UNCHANGED <<exists, file, hs, mode, eol, calls, goVars>>

(* What the closure of hostKeyCallback1653 does with the lookup's result.  *)
Decide1653(kind) ==
    CASE kind = "found" -> "return_nil"
      [] kind = "mismatch" -> "return_keyerr"
      [] kind = "unknown" -> "add"
      [] OTHER -> "return_err"

(* The lookup of the callback that knownhosts.New returned, on the lines   *)
(* it read when it was made; a nil remote address panics in its String.    *)
SnapshotLookup(db, hostname, remote, key) ==
    IF remote.isNil THEN LookupResult("panic", {})
    ELSE KnownhostsCheck(db, hostname, remote.str, key)

(* The record of a handshake after its lookup gave r and the callback      *)
(* chose d; seen keeps the length the file had at the lookup.              *)
AfterLookup(rec, r, d, addPc) ==
    [rec EXCEPT !.res = r.kind,
                !.want = r.want,
                !.seen = Len(file),
                !.pc = IF r.kind = "panic" THEN "done"
                       ELSE IF d \in {"add", "prompt"} THEN addPc ELSE "done",
                !.out = IF r.kind = "panic" THEN "panic"
                        ELSE CASE d = "return_nil" -> "nil"
                               [] d = "return_keyerr" -> "keyerr"
                               [] d = "return_err" -> "err"
                               [] OTHER -> "none"]

(* The SSH layer starts a handshake with the callback of a configuration;  *)
(* it refuses a configuration whose HostKeyCallback is nil.                *)
BeginHandshake(h, c) ==
    /\ CanBegin(h)
    /\ cbs[c].pc \in {"ready", "nil"}
    /\ \E peer \in Peers, key \in Keys :
         hs' = [hs EXCEPT ![h] =
            [@ EXCEPT !.variant = cbs[c].variant, !.cb = c,
                      !.hostname = peer.hostname, !.remote = peer.remote,
                      !.key = key,
                      !.pc = IF cbs[c].pc = "nil" THEN "done" ELSE "lookup",
                      !.out = IF cbs[c].pc = "nil" THEN "nocallback" ELSE "none"]]
    /\ UNCHANGED <<exists, file, cbs, mode, eol, calls, goVars>>

After1653(rec, r) == AfterLookup(rec, r, Decide1653(r.kind), "add")

Lookup1653(h) ==
    /\ hs[h].pc = "lookup"
    /\ hs[h].variant = "cb1653"
    /\ hs' = [hs EXCEPT ![h] = After1653(@,
                 SnapshotLookup(cbs[hs[h].cb].db, hs[h].hostname, hs[h].remote,
                                hs[h].key))]
    /\ UNCHANGED <<exists, file, cbs, mode, eol, calls, goVars>>

(* addHostKey1653: the file is opened for append without O_CREATE and one  *)
(* line is written for the normalized hostname.                            *)
AddHostKey1653(h) ==
    /\ hs[h].pc = "add"
    /\ hs[h].variant = "cb1653"
    /\ \E iok \in BOOLEAN :
         IF iok /\ exists
         THEN /\ file' = Append(file, KnownhostsLine(Normalize(hs[h].hostname), hs[h].key))
              /\ hs' = [hs EXCEPT ![h].pc = "done", ![h].out = "nil",
                                  ![h].appended = TRUE]
         ELSE /\ hs' = [hs EXCEPT ![h].pc = "done", ![h].out = "ioerr",
                                  ![h].ioErr = TRUE]
              /\ file' = file
    /\ UNCHANGED <<exists, cbs, mode, eol, calls, goVars>>

----------------------------------------------------------------------------
(* hostKeyCallback_1113.                                                   *)

Loaded1113(rec, l) ==
    [rec EXCEPT !.variant = "cb1113", !.pc = "ready", !.db = l.db,
                !.acceptAll = l.err # "none",
                !.err = l.err,
                !.loadErr = l.err # "none"]

(* knownhosts.New once; on any error the callback that accepts every key   *)
(* takes its place.                                                        *)
NewCallback1113(c) ==
    /\ CanCreate(c)
    /\ \E iok \in BOOLEAN :
         cbs' = [cbs EXCEPT ![c] = Loaded1113(@, LoadStore(iok))]
    /\ UNCHANGED <<exists, file, hs, mode, eol, calls, goVars>>

(* A closure that would add an unknown key as well: what C10 tells         *)
(* Decide1113 apart from.                                                  *)
Decide1113AddingUnknown(kind) ==
    CASE kind \in {"found", "accepted"} -> "return_nil"
      [] kind = "mismatch" -> "return_keyerr"
      [] OTHER -> "add"

(* Every KeyError is returned; only an error of another kind goes on to    *)
(* the append.                                                             *)
Decide1113(kind) ==
    CASE kind \in {"found", "accepted"} -> "return_nil"
      [] kind \in {"mismatch", "unknown"} -> "return_keyerr"
      [] OTHER -> "add"

After1113(rec, r) == AfterLookup(rec, r, Decide1113(r.kind), "add")

Lookup1113(h) ==
    /\ hs[h].pc = "lookup"
    /\ hs[h].variant = "cb1113"
    /\ hs' = [hs EXCEPT ![h] = After1113(@,
                 IF cbs[hs[h].cb].acceptAll THEN LookupResult("accepted", {})
                 ELSE SnapshotLookup(cbs[hs[h].cb].db, hs[h].hostname, hs[h].remote,
                                     hs[h].key))]
    /\ UNCHANGED <<exists, file, cbs, mode, eol, calls, goVars>>

(* The append of hostKeyCallback_1113: O_APPEND|O_WRONLY|O_CREATE, then    *)
(* knownhosts.Line of the hostname.                                        *)
Add1113(h) ==
    /\ hs[h].pc = "add"
    /\ hs[h].variant = "cb1113"
    /\ \E iok \in BOOLEAN :
         IF iok
         THEN /\ exists' = TRUE
              /\ mode' = OpenFileMode0600
              /\ file' = Append(file, KnownhostsLine(hs[h].hostname, hs[h].key))
              /\ hs' = [hs EXCEPT ![h].pc = "done", ![h].out = "nil",
                                  ![h].appended = TRUE]
         ELSE /\ hs' = [hs EXCEPT ![h].pc = "done", ![h].out = "ioerr",
                                  ![h].ioErr = TRUE]
              /\ UNCHANGED <<exists, file, mode>>
    /\ UNCHANGED <<cbs, eol, calls, goVars>>

----------------------------------------------------------------------------
(* trustedHostKeyCallback.                                                 *)

BeginTrusted(h) ==
    /\ CanBegin(h)
    /\ \E peer \in Peers, key \in Keys :
         hs' = [hs EXCEPT ![h] =
            [@ EXCEPT !.variant = "trusted", !.hostname = peer.hostname,
                      !.remote = peer.remote, !.key = key, !.pc = "ensure"]]
    /\ UNCHANGED <<exists, file, cbs, mode, eol, calls, goVars>>

(* ensureKnownHosts: a missing file is created with O_CREATE|O_WRONLY,     *)
(* which keeps the content of a file that is there; then                   *)
(* fmt.Println(remote.String()), which panics on a nil address.            *)
EnsureKnownHosts(h) ==
    /\ hs[h].pc = "ensure"
    /\ \E iok \in BOOLEAN :
         IF ~iok
         THEN /\ hs' = [hs EXCEPT ![h].pc = "done", ![h].out = "ioerr",
                                  ![h].ioErr = TRUE]
              /\ UNCHANGED <<exists, file, mode>>
         ELSE /\ exists' = TRUE
              /\ mode' = OpenFileMode0600
              /\ file' = file
              /\ hs' = IF hs[h].remote.isNil THEN Finish(h, "panic")
                       ELSE [hs EXCEPT ![h].pc = "load"]
    /\ UNCHANGED <<cbs, eol, calls, goVars>>

(* A callback that would ask the operator on a mismatch too: what C2 tells *)
(* DecideTrusted apart from.                                               *)
DecideTrustedAskingOnMismatch(kind) ==
    CASE kind = "found" -> "return_nil"
      [] kind \in {"mismatch", "unknown"} -> "prompt"
      [] OTHER -> "return_err"

(* What trustedHostKeyCallback does with the lookup's result: only         *)
(* "knownhosts: key is unknown" reaches the prompt.                        *)
DecideTrusted(kind) ==
    CASE kind = "found" -> "return_nil"
      [] kind = "mismatch" -> "return_keyerr"
      [] kind = "unknown" -> "prompt"
      [] OTHER -> "return_err"

AfterTrusted(rec, r) == AfterLookup(rec, r, DecideTrusted(r.kind), "ask")

AdapterLookup(db, hostname, a, key) ==
    IF a.panic THEN LookupResult("panic", {})
    ELSE KnownhostsCheck(db, hostname, a.s, key)

TrustedLoaded(rec, l) ==
    IF l.err # "none"
    THEN [rec EXCEPT !.pc = "done", !.out = "ioerr", !.ioErr = TRUE]
    ELSE AfterTrusted(rec, AdapterLookup(l.db, rec.hostname,
                                         AdapterString(rec.remote), rec.key))

(* knownhosts.New on the file as it now is, then the lookup with the       *)
(* adapter's string as remote address.                                     *)
LookupTrusted(h) ==
    /\ hs[h].pc = "load"
    /\ \E iok \in BOOLEAN :
         hs' = [hs EXCEPT ![h] = TrustedLoaded(@, LoadStore(iok))]
    /\ UNCHANGED <<exists, file, cbs, mode, eol, calls, goVars>>

(* The question is written to the operator.                                *)
AskOperator(h) ==
    /\ hs[h].pc = "ask"
    /\ hs' = [hs EXCEPT ![h].pc = "read", ![h].prompted = TRUE]
    /\ UNCHANGED <<exists, file, cbs, mode, eol, calls, goVars>>

(* reader.ReadString('\n'): a read error ends the process in log.Fatalf,   *)
(* an answer that is not yes ends it in os.Exit(1).                        *)
ReadAnswer(h) ==
    /\ hs[h].pc = "read"
    /\ \/ hs' = Finish(h, "fatal")
       \/ \E answer \in Answers :
            hs' = [hs EXCEPT ![h].answer = answer,
                             ![h].pc = IF AnswerIsYes(answer) THEN "add" ELSE "done",
                             ![h].out = IF AnswerIsYes(answer) THEN "none" ELSE "exit"]
    /\ UNCHANGED <<exists, file, cbs, mode, eol, calls, goVars>>

(* What trustedHostKeyCallback returns once the key has been added: the    *)
(* lookup's error is still set, so lines 531-538 return it.                *)
ReturnAfterAdd == "keyerr"

(* addKnownHost_1106 with the adapter's string: O_CREATE|O_WRONLY|O_APPEND *)
(* and a line whose host pattern is knownhosts.HashHostname of that        *)
(* string; a failure ends the process in log.Fatalf.                       *)
AddKnownHost1106(h) ==
    /\ hs[h].pc = "add"
    /\ hs[h].variant = "trusted"
    /\ \E iok \in BOOLEAN :
         IF iok
         THEN \E salt \in Salts :
              /\ exists' = TRUE
              /\ mode' = OpenFileMode0600
              /\ file' = Append(file,
                    <<KnownhostsHashHostname(AdapterString(hs[h].remote).s, salt),
                      StrField(<<hs[h].key.type>>), Base64Key(hs[h].key)>>)
              /\ hs' = [hs EXCEPT ![h].pc = "done", ![h].out = ReturnAfterAdd,
                                  ![h].appended = TRUE]
         ELSE /\ hs' = [hs EXCEPT ![h].pc = "done", ![h].out = "fatal",
                                  ![h].ioErr = TRUE]
              /\ UNCHANGED <<exists, file, mode>>
    /\ UNCHANGED <<cbs, eol, calls, goVars>>

----------------------------------------------------------------------------
(* hostKeyCallback_1132.                                                   *)

Loaded1132(rec, l) ==
    [rec EXCEPT !.variant = "cb1132",
                !.pc = IF l.err = "none" THEN "ready"
                       ELSE IF l.err = "notexist" THEN "create1132"
                       ELSE "panic",
                !.db = l.db,
                !.err = IF l.err = "notexist" THEN "none" ELSE l.err,
                !.loadErr = l.err \notin {"none", "notexist"}]

Reloaded1132(rec, l) ==
    [rec EXCEPT !.pc = IF l.err = "none" THEN "ready" ELSE "panic",
                !.db = l.db,
                !.err = l.err,
                !.loadErr = l.err # "none"]

(* knownhosts.New; a missing file goes on to be created, any other error   *)
(* is a panic.                                                             *)
NewCallback1132(c) ==
    /\ CanCreate(c)
    /\ \E iok \in BOOLEAN :
         cbs' = [cbs EXCEPT ![c] = Loaded1132(@, LoadStore(iok))]
    /\ UNCHANGED <<exists, file, hs, mode, eol, calls, goVars>>

(* os.MkdirAll and os.Create (which truncates); a failure is a panic.      *)
Create1132(c) ==
    /\ cbs[c].pc = "create1132"
    /\ \E iok \in BOOLEAN :
         IF iok
         THEN /\ exists' = TRUE
              /\ \E umask \in Umasks : mode' = CreatedMode("0666", umask)
              /\ file' = <<>>
              /\ cbs' = [cbs EXCEPT ![c].pc = "reload1132", ![c].created = TRUE]
         ELSE /\ cbs' = [cbs EXCEPT ![c].pc = "panic", ![c].loadErr = TRUE,
                                    ![c].err = "io"]
              /\ UNCHANGED <<exists, file, mode>>
    /\ UNCHANGED <<hs, eol, calls, goVars>>

Reload1132(c) ==
    /\ cbs[c].pc = "reload1132"
    /\ \E iok \in BOOLEAN :
         cbs' = [cbs EXCEPT ![c] = Reloaded1132(@, LoadStore(iok))]
    /\ UNCHANGED <<exists, file, hs, mode, eol, calls, goVars>>

(* The closure: a KeyError with keys is returned, an unknown key is added, *)
(* and after any other error the closure returns nil.                      *)
Decide1132(kind) ==
    CASE kind = "found" -> "return_nil"
      [] kind = "mismatch" -> "return_keyerr"
      [] kind = "unknown" -> "add"
      [] OTHER -> "return_nil"

After1132(rec, r) == AfterLookup(rec, r, Decide1132(r.kind), "add")

(* callback(newZitiEdgeConnAdapter(remote).String(),                       *)
(* newZitiEdgeConnAdapter(remote), key): the adapter's string is both the  *)
(* hostname and the remote address of the lookup.                          *)
AdapterAsHostLookup(db, a, key) ==
    IF a.panic THEN LookupResult("panic", {})
    ELSE KnownhostsCheck(db, a.s, a.s, key)

Lookup1132(h) ==
    /\ hs[h].pc = "lookup"
    /\ hs[h].variant = "cb1132"
    /\ hs' = [hs EXCEPT ![h] = After1132(@,
                 AdapterAsHostLookup(cbs[hs[h].cb].db, AdapterString(hs[h].remote),
                                     hs[h].key))]
    /\ UNCHANGED <<exists, file, cbs, mode, eol, calls, goVars>>

(* The append of hostKeyCallback_1132: O_APPEND|O_WRONLY, then             *)
(* knownhosts.Line of the normalized hostname the closure was called with. *)
Add1132(h) ==
    /\ hs[h].pc = "add"
    /\ hs[h].variant = "cb1132"
    /\ \E iok \in BOOLEAN :
         IF iok /\ exists
         THEN /\ file' = Append(file, KnownhostsLine(Normalize(hs[h].hostname), hs[h].key))
              /\ hs' = [hs EXCEPT ![h].pc = "done", ![h].out = "nil",
                                  ![h].appended = TRUE]
         ELSE /\ hs' = [hs EXCEPT ![h].pc = "done", ![h].out = "ioerr",
                                  ![h].ioErr = TRUE]
              /\ file' = file
    /\ UNCHANGED <<exists, cbs, mode, eol, calls, goVars>>

----------------------------------------------------------------------------
(* addKnownHostEntry1730 (ssh-addons.go.not).                              *)

(* The hostnames addKnownHostEntry1730 is called with.                     *)
EntryHosts == {<<"h1">>, <<"h2">>, <<"h1", ":", "22">>}

(* strings.Contains(line, keyString) for a line of the file: the base64    *)
(* text of the key is one of its fields.                                   *)
LineContainsKey(line, key) ==
    \E f \in 1..Len(line) : line[f].tag = "b64" /\ line[f].key = key

KeyInFile(key) == \E j \in 1..Len(file) : LineContainsKey(file[j], key)

Begin1730(h) ==
    /\ CanBegin(h)
    /\ \E hostname \in EntryHosts, key \in Keys :
         hs' = [hs EXCEPT ![h] =
            [@ EXCEPT !.variant = "entry1730", !.hostname = hostname,
                      !.key = key, !.pc = "scan1730"]]
    /\ UNCHANGED <<exists, file, cbs, mode, eol, calls, goVars>>

(* os.ReadFile and the scan of its lines: an error other than a missing    *)
(* file is returned; a line that holds the key ends the call with nil and  *)
(* nothing written.                                                        *)
Scan1730(h) ==
    /\ hs[h].pc = "scan1730"
    /\ \E iok \in BOOLEAN :
         hs' = IF exists /\ ~iok
               THEN [hs EXCEPT ![h].pc = "done", ![h].out = "ioerr",
                               ![h].ioErr = TRUE]
               ELSE IF exists /\ KeyInFile(hs[h].key)
               THEN [hs EXCEPT ![h].pc = "done", ![h].out = "nil",
                               ![h].seen = Len(file)]
               ELSE [hs EXCEPT ![h].pc = "add1730", ![h].seen = Len(file)]
    /\ UNCHANGED <<exists, file, cbs, mode, eol, calls, goVars>>

(* O_APPEND|O_WRONLY|O_CREATE, then knownhosts.Line of                     *)
(* knownhosts.HashHostname(hostname): Normalize leaves the hashed pattern  *)
(* as it is.                                                               *)
Add1730(h) ==
    /\ hs[h].pc = "add1730"
    /\ \E iok \in BOOLEAN :
         IF iok
         THEN \E salt \in Salts :
              /\ exists' = TRUE
              /\ mode' = OpenFileMode0600
              /\ file' = Append(file,
                    <<KnownhostsHashHostname(hs[h].hostname, salt),
                      StrField(<<hs[h].key.type>>), Base64Key(hs[h].key)>>)
              /\ hs' = [hs EXCEPT ![h].pc = "done", ![h].out = "nil",
                                  ![h].appended = TRUE]
         ELSE /\ hs' = [hs EXCEPT ![h].pc = "done", ![h].out = "ioerr",
                                  ![h].ioErr = TRUE]
              /\ UNCHANGED <<exists, file, mode>>
    /\ UNCHANGED <<cbs, eol, calls, goVars>>

----------------------------------------------------------------------------
(* EstablishClient up to factory.Config().                                 *)

SvcServer == <<"ubuntu@zsshSvcServer", ":", "22">>

(* The host keys the server at that address may present.                   *)
SvcKeys == {[type |-> "t1", data |-> "a"]}

(* addSSHHostKey1708 once its ssh.Dial has given it the server's key: one  *)
(* line for Normalize("ubuntu@zsshSvcServer:22") is appended with          *)
(* O_APPEND|O_WRONLY|O_CREATE, and no lookup is made.                      *)
AddSSHHostKey1708(c) ==
    /\ CanCreate(c)
    /\ \E dialed \in BOOLEAN, key \in SvcKeys, iok \in BOOLEAN :
         IF dialed /\ iok
         THEN /\ exists' = TRUE
              /\ mode' = OpenFileMode0600
              /\ file' = Append(file, KnownhostsLine(Normalize(SvcServer), key))
              /\ cbs' = [cbs EXCEPT ![c].pc = "ensure", ![c].pre = TRUE]
         ELSE /\ cbs' = [cbs EXCEPT ![c].pc = "ensure"]
              /\ UNCHANGED <<exists, file, mode>>
    /\ UNCHANGED <<hs, eol, calls, goVars>>

(* ensureKnownHosts in EstablishClient: an error ends the process with     *)
(* log.Fatalf.                                                             *)
EnsureForClient(c) ==
    /\ cbs[c].pc = "ensure"
    /\ \E iok \in BOOLEAN :
         IF iok
         THEN /\ exists' = TRUE
              /\ mode' = OpenFileMode0600
              /\ cbs' = [cbs EXCEPT ![c].pc = "config"]
         ELSE /\ exists' = exists
              /\ mode' = mode
              /\ cbs' = [cbs EXCEPT ![c].pc = "fatal"]
    /\ UNCHANGED <<file, hs, eol, calls, goVars>>

(* factory.Config(): hostKeyCallback1653 is built for the connection.      *)
Config1653(c) ==
    /\ cbs[c].pc = "config"
    /\ \E iok \in BOOLEAN :
         cbs' = [cbs EXCEPT ![c] = Loaded1653(@, LoadStore(iok))]
    /\ UNCHANGED <<exists, file, hs, mode, eol, calls, goVars>>

----------------------------------------------------------------------------

Next ==
    \/ \E c \in Callbacks : NewCallback1653(c)
    \/ \E c \in Callbacks : Create1653(c)
    \/ \E c \in Callbacks : Reload1653(c)
    \/ \E c \in Callbacks : NewCallback1113(c)
    \/ \E h \in Handshakes, c \in Callbacks : BeginHandshake(h, c)
    \/ \E h \in Handshakes : Lookup1653(h)
    \/ \E h \in Handshakes : AddHostKey1653(h)
    \/ \E h \in Handshakes : Lookup1113(h)
    \/ \E h \in Handshakes : Add1113(h)
    \/ \E h \in Handshakes : BeginTrusted(h)
    \/ \E h \in Handshakes : EnsureKnownHosts(h)
    \/ \E h \in Handshakes : LookupTrusted(h)
    \/ \E h \in Handshakes : AskOperator(h)
    \/ \E h \in Handshakes : ReadAnswer(h)
    \/ \E h \in Handshakes : AddKnownHost1106(h)
    \/ \E c \in Callbacks : NewCallback1132(c)
    \/ \E c \in Callbacks : Create1132(c)
    \/ \E c \in Callbacks : Reload1132(c)
    \/ \E h \in Handshakes : Lookup1132(h)
    \/ \E h \in Handshakes : Add1132(h)
    \/ \E c \in Callbacks : AddSSHHostKey1708(c)
    \/ \E c \in Callbacks : EnsureForClient(c)
    \/ \E c \in Callbacks : Config1653(c)
    \/ \E h \in Handshakes : Begin1730(h)
    \/ \E h \in Handshakes : Scan1730(h)
    \/ \E h \in Handshakes : Add1730(h)

Spec == Init /\ [][Next]_vars

----------------------------------------------------------------------------
(* The functions of the file that none of the callbacks above calls: the   *)
(* address adapter, the hashing helpers and the other appenders.  Each is  *)
(* applied to inputs drawn from small sets, and calls keeps what was       *)
(* called with what and what came of it.                                   *)

MaxCalls == 2

(* The salt of AddHashedKnownHost, []byte("random_salt_value"); the salts  *)
(* rand.Read gives are those of Salts.                                     *)
FixedSalt == 0

(* hmac.New(sha1.New, salt) over msg, and sha1 over salt followed by msg.  *)
(* A digest is kept as what it was computed from: two digests are equal    *)
(* exactly when algorithm, salt and message are.                           *)
HmacSha1(salt, msg) == [alg |-> "hmac", salt |-> salt, msg |-> msg]

Sha1Concat(salt, msg) == [alg |-> "sha1", salt |-> salt, msg |-> msg]

(* A hash that leaves the hostname out: what C23 tells HashHostname apart  *)
(* from.                                                                   *)
HashOfSaltOnly(hostname, salt) == HmacSha1(salt, <<>>)

(* HashHostname(hostname, salt)                                            *)
HashHostname(hostname, salt) == HmacSha1(salt, hostname)

(* The pattern "|1|" + base64(salt) + "|" + base64(digest) as a field: the *)
(* library reads it as the HMAC under salt of some host, which a digest    *)
(* made in another way is for no host.                                     *)
HashedPattern(salt, digest) ==
    HashField(salt, IF digest.alg = "hmac" /\ digest.salt = salt THEN digest.msg
                    ELSE <<"sha1(salt+host)">> \o digest.msg)

(* generateHashedHostname_1125 with the salt rand.Read gave                *)
GenerateHashedHostname_1125(hostport, salt) ==
    HashedPattern(salt, Sha1Concat(salt, hostport))

(* keyString(k): the key type, a space, the base64 key.                    *)
KeyString(key) == <<StrField(<<key.type>>), Base64Key(key)>>

(* ConvertToHashedKnownHost with the salt GenerateRandomSalt gave: the     *)
(* entry "|1|salt|hash keyType keyValue", without a newline.               *)
ConvertToHashedKnownHost(hostname, keyType, keyValue, salt) ==
    <<HashedPattern(salt, HashHostname(hostname, salt)), StrField(<<keyType>>)>>
    \o keyValue

(* knownhosts.Line(addresses, key): the normalized addresses joined by     *)
(* ",", the key type and the base64 key.                                   *)
NormalizeAll(addresses) == [j \in 1..Len(addresses) |-> Normalize(addresses[j])]

KnownhostsLineOf(addresses, key) ==
    <<StrField(StringsJoin(NormalizeAll(addresses), ",")), StrField(<<key.type>>),
      Base64Key(key)>>

(* The hostnames and remote addresses the functions are called with.       *)
LibHosts == {<<"h1">>, <<"h1", ":", "2222">>}

TcpAddr2222 == Addr(<<"h1", ":", "2222">>)

(* The type assertion of remote to a TCP address                           *)
IsTCPAddr(remote) == remote \in {TcpAddr, TcpAddr2222}

TCPPort(remote) == SplitHostPort(remote.str).port

LibRemotes == {NilAddr, TcpAddr2222, ZitiAddr}

(* What the adapter is asked the string of: no address, a string without   *)
(* ":", two ziti addresses of the same router that differ in the           *)
(* connection, and TCP addresses, one of them "[::1]:22".                  *)
ZitiAddr2 == Addr(<<"conn2", "[", "tls", ":", "h1", ":", "22", "]">>)

Descriptors ==
    {NilAddr, Addr(<<"pipe">>), ZitiAddr, ZitiAddr2, TcpAddr,
     Addr(<<"[", ":", ":", "1", "]", ":", "22">>)}

NoCall ==
    [op |-> "none", host |-> <<>>, remote |-> NilAddr, key |-> NoKey,
     salt |-> 0, out |-> "none", wrote |-> FALSE, str |-> <<>>,
     digest |-> HmacSha1(0, <<>>)]

CanCall == Len(calls) < MaxCalls

Called(c) == calls' = Append(calls, c)

(* The two fields that meet when text is written after a line that has no  *)
(* newline: one field that is no pattern and no base64 text.               *)
CatField == [tag |-> "cat", s |-> <<>>, salt |-> 0, key |-> NoKey]

(* The file after fields are written at its end with O_APPEND.             *)
Written(fields) ==
    IF eol \/ file = <<>> THEN Append(file, fields)
    ELSE [file EXCEPT ![Len(file)] =
             SubSeq(@, 1, Len(@) - 1) \o <<CatField>> \o Tail(fields)]

(* OpenFile with O_CREATE|O_WRONLY|O_APPEND and 0600, then one WriteString *)
(* of fields, with a newline at the end or without.                        *)
AppendText(c, fields, newline) ==
    \E iok \in BOOLEAN :
        IF iok
        THEN /\ exists' = TRUE
             /\ mode' = OpenFileMode0600
             /\ file' = Written(fields)
             /\ eol' = newline
             /\ Called([c EXCEPT !.out = "nil", !.wrote = TRUE])
        ELSE /\ UNCHANGED <<exists, file, mode, eol>>
             /\ Called([c EXCEPT !.out = "ioerr"])

(* zitiEdgeConnAdapter.String                                              *)
String(d) ==
    /\ CanCall
    /\ Called([NoCall EXCEPT !.op = "String", !.remote = d,
                             !.out = IF AdapterString(d).panic THEN "panic" ELSE "nil",
                             !.str = AdapterString(d).s])
    /\ UNCHANGED <<exists, file, mode, eol, cbs, hs, goVars>>

CallHashHostname(hostname, salt) ==
    /\ CanCall
    /\ Called([NoCall EXCEPT !.op = "HashHostname", !.host = hostname,
                             !.salt = salt, !.out = "nil",
                             !.digest = HashHostname(hostname, salt)])
    /\ UNCHANGED <<exists, file, mode, eol, cbs, hs, goVars>>

(* AddKnownHost: the normalized remote address, and the normalized host    *)
(* when it differs, in one line; remote.String() panics on a nil address.  *)
AddKnownHost(host, remote, key) ==
    /\ CanCall
    /\ IF remote.isNil
       THEN /\ Called([NoCall EXCEPT !.op = "AddKnownHost", !.host = host,
                                     !.remote = remote, !.key = key,
                                     !.out = "panic"])
            /\ UNCHANGED <<exists, file, mode, eol>>
       ELSE AppendText([NoCall EXCEPT !.op = "AddKnownHost", !.host = host,
                                      !.remote = remote, !.key = key],
                       KnownhostsLineOf(
                           IF Normalize(host) # Normalize(remote.str)
                           THEN <<Normalize(remote.str), Normalize(host)>>
                           ELSE <<Normalize(remote.str)>>, key),
                       TRUE)
    /\ UNCHANGED <<cbs, hs, goVars>>

(* addKnownHost_1101: the entry of ConvertToHashedKnownHost, written as it *)
(* is.                                                                     *)
AddKnownHost_1101(host, key) ==
    /\ CanCall
    /\ \E salt \in Salts :
         AppendText([NoCall EXCEPT !.op = "addKnownHost_1101", !.host = host,
                                   !.key = key, !.salt = salt],
                    ConvertToHashedKnownHost(host, key.type, KeyString(key), salt),
                    FALSE)
    /\ UNCHANGED <<cbs, hs, goVars>>

(* AddHashedKnownHost: "|1|salt|hash type key\n" with the fixed salt.      *)
AddHashedKnownHost(host, key) ==
    /\ CanCall
    /\ AppendText([NoCall EXCEPT !.op = "AddHashedKnownHost", !.host = host,
                                 !.key = key, !.salt = FixedSalt],
                  <<HashedPattern(FixedSalt, HashHostname(host, FixedSalt)),
                    StrField(<<key.type>>), Base64Key(key)>>,
                  TRUE)
    /\ UNCHANGED <<cbs, hs, goVars>>

(* The host addKnownHostEntry1702 writes: the hostname joined with the     *)
(* port of a TCP remote address, the hostname alone otherwise.             *)
HostToWrite1702(hostname, remote) ==
    IF ~remote.isNil /\ IsTCPAddr(remote)
    THEN JoinHostPort(hostname, TCPPort(remote))
    ELSE hostname

AddKnownHostEntry1702(hostname, remote, key) ==
    /\ CanCall
    /\ AppendText([NoCall EXCEPT !.op = "addKnownHostEntry1702",
                                 !.host = hostname, !.remote = remote,
                                 !.key = key],
                  KnownhostsLine(Normalize(HostToWrite1702(hostname, remote)), key),
                  TRUE)
    /\ UNCHANGED <<cbs, hs, goVars>>

(* generateHashedHostname_1125 as the appender of hostKeyCallback_1125     *)
(* uses it: "pattern type key\n".                                          *)
Append1125(hostname, key) ==
    /\ CanCall
    /\ \E salt \in Salts :
         AppendText([NoCall EXCEPT !.op = "generateHashedHostname_1125",
                                   !.host = hostname, !.key = key, !.salt = salt],
                    <<GenerateHashedHostname_1125(hostname, salt),
                      StrField(<<key.type>>), Base64Key(key)>>,
                    TRUE)
    /\ UNCHANGED <<cbs, hs, goVars>>

LibNext ==
    \/ \E d \in Descriptors : String(d)
    \/ \E hostname \in LibHosts, salt \in Salts \cup {FixedSalt} :
          CallHashHostname(hostname, salt)
    \/ \E host \in LibHosts, remote \in LibRemotes, key \in Keys :
          AddKnownHost(host, remote, key)
    \/ \E host \in LibHosts, key \in Keys : AddKnownHost_1101(host, key)
    \/ \E host \in LibHosts, key \in Keys : AddHashedKnownHost(host, key)
    \/ \E hostname \in LibHosts, remote \in LibRemotes, key \in Keys :
          AddKnownHostEntry1702(hostname, remote, key)
    \/ \E hostname \in LibHosts, key \in Keys : Append1125(hostname, key)

LibSpec == Init /\ [][LibNext]_vars

----------------------------------------------------------------------------
(* Lookups as a caller of the store sees them.                             *)

CheckLoaded(r, hostname, remoteStr, key) ==
    IF ~r.ok THEN LookupResult("loaderror", {})
    ELSE KnownhostsCheck(r.db, hostname, remoteStr, key)

(* knownhosts.New on the file as it is now, then the callback it returns.  *)
LookupNow(hostname, remoteStr, key) ==
    CheckLoaded(ReadLines(file), hostname, remoteStr, key)

(* The lookup handshake h makes, made now for key: trustedHostKeyCallback  *)
(* hands the adapter's string to the callback as the remote address,       *)
(* hostKeyCallback_1132 as the hostname too, the other callbacks hand on   *)
(* what they were called with.                                             *)
LookupOf(h, key) ==
    LookupNow(IF hs[h].variant = "cb1132" THEN AdapterString(hs[h].remote).s
              ELSE hs[h].hostname,
              IF hs[h].variant \in {"trusted", "cb1132"}
              THEN AdapterString(hs[h].remote).s
              ELSE hs[h].remote.str,
              key)

(* The keys of the lines the lookup of handshake h reads.                  *)
LinesRead(h) ==
    IF hs[h].variant = "trusted" THEN ReadLines(file).db ELSE cbs[hs[h].cb].db

KeysOf(db) == {db[j].key : j \in 1..Len(db)}

IsPrefix(s, t) == Len(s) <= Len(t) /\ SubSeq(t, 1, Len(s)) = s

----------------------------------------------------------------------------
(* The claims.                                                             *)

(* C1: once hostKeyCallback1653 has appended key K1 for a host, a lookup   *)
(* for that host presenting another key K2 of K1's type gives the mismatch *)
(* signal, never Found and never NotFound.                                 *)
C1_MismatchAfterAppend ==
    \A h \in Handshakes :
        hs[h].variant = "cb1653" /\ hs[h].appended =>
            \A k2 \in Keys :
                k2.type = hs[h].key.type /\ k2 # hs[h].key =>
                    LookupOf(h, k2).kind = "mismatch"

C2_MismatchEnds ==
    \A h \in Handshakes :
        hs[h].res = "mismatch" =>
            /\ hs[h].pc = "done"
            /\ hs[h].out = "keyerr"
            /\ hs[h].want # {}
            /\ hs[h].key \notin hs[h].want
            /\ ~hs[h].prompted
            /\ ~hs[h].appended

C2_MismatchStep ==
    \A h \in Handshakes :
        hs[h].res = "none" /\ hs'[h].res = "mismatch" =>
            /\ hs'[h].want \subseteq KeysOf(LinesRead(h))
            /\ file' = file

(* C2: a handshake whose lookup gives the mismatch signal ends by          *)
(* returning the KeyError that carries the keys stored for the host (not   *)
(* empty, read from the store, the presented key not among them); the      *)
(* operator is not asked, nothing is appended, and success is never        *)
(* returned.                                                               *)
C2_MismatchReturnsStoredKey == []C2_MismatchEnds /\ [][C2_MismatchStep]_vars

C2_Witness ==
    \E h, g \in Handshakes :
        /\ hs[h].variant = "cb1653"
        /\ hs[h].res = "mismatch"
        /\ hs[h].out = "keyerr"
        /\ hs[g].variant = "trusted"
        /\ hs[g].res = "mismatch"
        /\ hs[g].out = "keyerr"
        /\ hs[g].key = [type |-> "t1", data |-> "b"]
        /\ hs[g].want = {[type |-> "t1", data |-> "a"]}

(* C3: fail closed: a handshake in which loading or creating the store     *)
(* failed, or the append failed, never ends with the verification          *)
(* returning success.                                                      *)
C3_FailClosed ==
    \A h \in Handshakes :
        hs[h].ioErr \/ (hs[h].cb # 0 /\ cbs[hs[h].cb].loadErr) =>
            hs[h].out # "nil"

(* C4: after addHostKey1653 or addKnownHost_1106 has appended key K in a   *)
(* handshake for a host, the lookup of that handshake, made again for K,   *)
(* gives Found.                                                            *)
C4_FoundAfterAppend ==
    \A h \in Handshakes :
        hs[h].appended /\ hs[h].variant \in {"cb1653", "trusted"} =>
            LookupOf(h, hs[h].key).kind = "found"

(* C5: the store is only ever extended: in every step the content of the   *)
(* file before the step is a prefix of its content after it.               *)
C5_StoreOnlyExtended == [][IsPrefix(file, file')]_vars

(* C6: a handshake step changes the store only when the lookup of that     *)
(* handshake gave NotFound and the key was then trusted (automatically, or *)
(* by an operator's yes).                                                  *)
C6_OnlyTrustedNotFoundWrites ==
    [][\A h \in Handshakes :
          hs[h].variant # "entry1730" /\ hs'[h] # hs[h] /\ file' # file =>
              /\ hs[h].res = "unknown"
              /\ hs[h].variant = "trusted" =>
                    hs[h].answer # <<>> /\ hs[h].answer[1] \in {"y", "Y"}]_vars

(* C7: hostKeyCallback1653 on a store it has just created: a handshake     *)
(* whose lookup gives NotFound and whose append does not fail returns      *)
(* success with the key appended, and a lookup made afterwards for the     *)
(* same host and key gives Found.                                          *)
C7_AutoTrustThenFound ==
    \A h \in Handshakes :
        /\ hs[h].variant = "cb1653"
        /\ cbs[hs[h].cb].created
        /\ hs[h].res = "unknown"
        /\ hs[h].pc = "done"
        /\ ~hs[h].ioErr
        => /\ hs[h].appended
           /\ hs[h].out = "nil"
           /\ LookupOf(h, hs[h].key).kind = "found"

(* C8: trustedHostKeyCallback, lookup NotFound, an answer that starts with *)
(* y or Y, and an append that does not fail: the key is appended and the   *)
(* verification returns success.                                           *)
C8_YesReturnsSuccess ==
    \A h \in Handshakes :
        /\ hs[h].variant = "trusted"
        /\ hs[h].res = "unknown"
        /\ hs[h].answer # <<>>
        /\ hs[h].answer[1] \in {"y", "Y"}
        /\ hs[h].pc = "done"
        /\ ~hs[h].ioErr
        => hs[h].appended /\ hs[h].out = "nil"

(* C9: trustedHostKeyCallback, lookup NotFound, an answer that does not    *)
(* start with y or Y (an empty line too): the handshake is over, the       *)
(* process has left with os.Exit(1), nothing was appended and the          *)
(* operator is not asked again.                                            *)
C9_NoMeansExit ==
    \A h \in Handshakes :
        /\ hs[h].variant = "trusted"
        /\ hs[h].answer # <<>>
        /\ hs[h].answer[1] \notin {"y", "Y"}
        => /\ hs[h].res = "unknown"
           /\ hs[h].prompted
           /\ hs[h].pc = "done"
           /\ hs[h].out = "exit"
           /\ ~hs[h].appended

C9_Witness ==
    \E h, g \in Handshakes :
        /\ hs[h].variant = "trusted"
        /\ hs[h].answer = <<"\n">>
        /\ hs[h].out = "exit"
        /\ hs[g].variant = "trusted"
        /\ hs[g].answer = <<"n", "o", "\n">>
        /\ hs[g].out = "exit"

C11_LookupReadsCurrentStore ==
    [][\A h \in Handshakes :
          /\ hs[h].variant = "cb1653"
          /\ hs[h].res = "none"
          /\ hs'[h].res \notin {"none", "panic"}
          => hs'[h].res = LookupOf(h, hs[h].key).kind]_vars

(* C13: the mismatch signal is given only against a stored key of the      *)
(* presented key's type: a host known with keys of other types alone is    *)
(* NotFound for the presented key.                                         *)
C13_MismatchOnlyWithinType ==
    \A h \in Handshakes :
        hs[h].res = "mismatch" =>
            \E k \in hs[h].want : k.type = hs[h].key.type

(* The entry line j of the file holds, read on its own.                    *)
EntryAt(j) == ParseLine(file[j])

SameHostAndType(e1, e2) ==
    /\ e1.ok /\ ~e1.skip
    /\ e2.ok /\ ~e2.skip
    /\ e1.matcher.hashed = e2.matcher.hashed
    /\ e1.matcher.host = e2.matcher.host
    /\ e1.matcher.port = e2.matcher.port
    /\ e1.key.type = e2.key.type

(* C14: no handshake of hostKeyCallback1653 appends an entry for a host    *)
(* and key type while the store holds an entry for that host and type      *)
(* with other key bytes, whatever the interleaving of the handshakes.      *)
C14_NoSecondKeyForHostAndType ==
    [][\A h \in Handshakes :
          /\ hs[h].variant = "cb1653"
          /\ ~hs[h].appended
          /\ hs'[h].appended
          => \A j \in 1..Len(file) :
                SameHostAndType(EntryAt(j), ParseLine(file'[Len(file')])) =>
                    EntryAt(j).key = hs[h].key]_vars

(* Handshakes h and g come from one peer with one key through the same     *)
(* kind of callback.                                                       *)
SamePeerAndKey(h, g) ==
    /\ hs[h].variant = hs[g].variant
    /\ hs[h].hostname = hs[g].hostname
    /\ hs[h].remote = hs[g].remote
    /\ hs[h].key = hs[g].key

(* C15: two handshakes of hostKeyCallback1653 that present the same key    *)
(* for the same host, both NotFound and neither with a failed append,      *)
(* both end trusted, and a lookup of that host and key made afterwards     *)
(* gives Found.                                                            *)
C15_SameKeyTwiceIsBenign ==
    \A h, g \in Handshakes :
        /\ h # g
        /\ hs[h].variant = "cb1653"
        /\ SamePeerAndKey(h, g)
        /\ hs[h].res = "unknown" /\ hs[h].pc = "done" /\ ~hs[h].ioErr
        /\ hs[g].res = "unknown" /\ hs[g].pc = "done" /\ ~hs[g].ioErr
        => /\ hs[h].out = "nil"
           /\ hs[g].out = "nil"
           /\ Len(file) >= 1
           /\ LookupOf(h, hs[h].key).kind = "found"

(* C18: the store does not report a mismatch against itself: a key that    *)
(* addHostKey1653 has appended for a host is never answered with the       *)
(* mismatch signal for that host, and once it has been appended twice      *)
(* every lookup of it gives Found.                                         *)
C18_AppendIsIdempotent ==
    \A h \in Handshakes :
        hs[h].variant = "cb1653" /\ hs[h].appended =>
            /\ LookupOf(h, hs[h].key).kind # "mismatch"
            /\ \A g \in Handshakes :
                  g # h /\ SamePeerAndKey(h, g) /\ hs[g].appended =>
                      LookupOf(h, hs[h].key).kind = "found"

(* The file holds an entry that parses and a line that does not.           *)
HasBadAndGoodLine ==
    /\ \E j \in 1..Len(file) : ~EntryAt(j).ok
    /\ \E j \in 1..Len(file) : EntryAt(j).ok /\ ~EntryAt(j).skip

(* C20: a line that does not parse is skipped: no callback of              *)
(* hostKeyCallback1653 is lost to such a line, and the lookup of a         *)
(* handshake, made on a file with such a line and a valid entry, does not  *)
(* end in a load error.                                                    *)
C20_BadLineIsSkipped ==
    /\ \A c \in Callbacks :
          cbs[c].variant = "cb1653" => cbs[c].err # "parse"
    /\ \A h \in Handshakes :
          hs[h].variant \in {"cb1653", "trusted"} /\ hs[h].pc = "done" =>
              (HasBadAndGoodLine => LookupOf(h, hs[h].key).kind # "loaderror")

(* The address the lookup of handshake h is made for: the hostname when    *)
(* the callback is handed one, the remote address otherwise.               *)
AddrOfSplit(sp) == [host |-> sp.host, port |-> sp.port]

LookupHostname(h) ==
    IF hs[h].variant = "cb1132" THEN AdapterString(hs[h].remote).s
    ELSE hs[h].hostname

LookupRemote(h) ==
    IF hs[h].variant \in {"trusted", "cb1132"} THEN AdapterString(hs[h].remote).s
    ELSE hs[h].remote.str

LookupAddr(h) ==
    AddrOfSplit(SplitHostPort(IF LookupHostname(h) # <<>> THEN LookupHostname(h)
                              ELSE LookupRemote(h)))

EntryMatches(e, a) == e.ok /\ ~e.skip /\ LineMatches(e.matcher, a)

(* C12: the line a handshake of hostKeyCallback1653 or                     *)
(* hostKeyCallback_1132 appends is an entry for the address its lookup     *)
(* was made for, whatever the hostname it was called with, the empty one   *)
(* included.                                                               *)
C12_AppendWritesLookupIdentity ==
    [][\A h \in Handshakes :
          /\ hs[h].variant \in {"cb1653", "cb1132"}
          /\ ~hs[h].appended
          /\ hs'[h].appended
          => EntryMatches(ParseLine(file'[Len(file')]), LookupAddr(h))]_vars

(* The address of a host given by name, with port 22 when the name carries *)
(* none.                                                                   *)
WithPort(hostname) ==
    IF ContainsTok(hostname, ":") THEN hostname ELSE JoinHostPort(hostname, Port22)

(* A lookup on the file as it is for the host a call of                    *)
(* addKnownHostEntry1730 names.                                            *)
HostLookup(hostname, key) == LookupNow(WithPort(hostname), WithPort(hostname), key)

(* The lookup that belongs to the append of h: that of its handshake, or   *)
(* for addKnownHostEntry1730 that of the host it was called with.          *)
LookupBeforeAppend(h) ==
    IF hs[h].variant = "entry1730" THEN HostLookup(hs[h].hostname, hs[h].key)
    ELSE LookupOf(h, hs[h].key)

(* C16: an append looks the key up again before it writes: with no other  *)
(* appender at work (the file is as long as it was at the lookup),         *)
(* addHostKey1653 and addKnownHostEntry1730 write nothing when a lookup on *)
(* the store already gives Found for the host and key.                     *)
C16_AppendRechecksLookup ==
    [][\A h \in Handshakes :
          /\ hs[h].variant \in {"cb1653", "entry1730"}
          /\ ~hs[h].appended
          /\ hs'[h].appended
          /\ hs[h].seen = Len(file)
          => LookupBeforeAppend(h).kind # "found"]_vars

(* C17: addKnownHostEntry1730 keeps an append back only when the key is    *)
(* recorded for the same host: called for a host for which a lookup gives  *)
(* NotFound, it goes on to write, also when the key is recorded for        *)
(* another host.                                                           *)
C17_DuplicateIsPerHost ==
    [][\A h \in Handshakes :
          /\ hs[h].variant = "entry1730"
          /\ hs[h].pc = "scan1730"
          /\ hs'[h].pc # "scan1730"
          /\ ~hs'[h].ioErr
          /\ HostLookup(hs[h].hostname, hs[h].key).kind = "unknown"
          => hs'[h].pc = "add1730"]_vars

(* C19: a connection adds at most one line to the store, for the key that  *)
(* was presented and verified: when EstablishClient has added a line       *)
(* before the handshake, the handshake of that connection adds none.       *)
C19_OneLinePerConnection ==
    \A h \in Handshakes :
        hs[h].variant = "cb1653" /\ hs[h].appended => ~cbs[hs[h].cb].pre

(* The verifications that have written their question to the operator and  *)
(* have not read an answer yet.                                            *)
Prompting == {h \in Handshakes : hs[h].variant = "trusted" /\ hs[h].pc = "read"}

(* C29: prompts are serialized: at most one verification of the process is *)
(* between writing its question and reading its answer.                    *)
C29_OnePromptAtATime == Cardinality(Prompting) <= 1

(* A step in which a callback's store is loaded for the first time.        *)
FirstLoad(c) == cbs[c].variant = "none" /\ cbs'[c].variant # "none"

(* C28: a store that the code created has mode 0600, and the load of a     *)
(* file that is there changes neither its content nor its mode.            *)
C28_StoreIsPrivate ==
    /\ [](exists => mode = "0600")
    /\ [][\A c \in Callbacks :
             FirstLoad(c) /\ exists => file' = file /\ mode' = mode]_vars

(* The last call made, and a step in which an appender wrote.              *)
LastCall == calls[Len(calls)]

AppendStep == Len(calls') = Len(calls) + 1 /\ calls'[Len(calls')].wrote

(* A field that holds exactly one host pattern.                            *)
OnePattern(f) ==
    \/ f.tag = "hash"
    \/ f.tag = "str" /\ f.s # <<>> /\ ~ContainsTok(f.s, ",")

(* A line of one host pattern, the type of key and the base64 text of key. *)
WellFormedLine(line, key) ==
    /\ Len(line) = 3
    /\ OnePattern(line[1])
    /\ line[2] = StrField(<<key.type>>)
    /\ line[3] = Base64Key(key)

(* C21: every append writes one line of its own that ends with a newline   *)
(* and holds one host pattern, one key type and one base64 key, and the    *)
(* line decodes to the key that was written.                               *)
C21_OneEntryPerLine ==
    [][AppendStep =>
          /\ eol'
          /\ Len(file') = Len(file) + 1
          /\ WellFormedLine(file'[Len(file')], calls'[Len(calls')].key)
          /\ ParseLine(file'[Len(file')]).ok
          /\ ParseLine(file'[Len(file')]).key = calls'[Len(calls')].key]_vars

(* The appenders that write a hashed host pattern.                         *)
HashedAppenders ==
    {"AddHashedKnownHost", "addKnownHost_1101", "generateHashedHostname_1125"}

(* No call but the last has left the file without a newline at its end.    *)
EarlierCallsEndLines ==
    \A j \in 1..(Len(calls) - 1) : calls[j].wrote => calls[j].op # "addKnownHost_1101"

(* The matcher the library makes of a hashed pattern.                      *)
HashedMatcher(f) == [hashed |-> TRUE, host |-> f.s, port |-> <<>>, salt |-> f.salt]

(* C22: the hashed pattern that an append has written for a host H carries *)
(* a salt drawn for that entry, never the fixed one, and the HMAC of H     *)
(* under that salt, so that the pattern matches H.                         *)
C22_HashedEntryMatchesHost ==
    /\ calls # <<>>
    /\ LastCall.wrote
    /\ LastCall.op \in HashedAppenders
    /\ Normalize(LastCall.host) = LastCall.host
    /\ EarlierCallsEndLines
    => /\ file[Len(file)][1].tag = "hash"
       /\ file[Len(file)][1].salt # FixedSalt
       /\ file[Len(file)][1].s = LastCall.host
       /\ LineMatches(HashedMatcher(file[Len(file)][1]),
                      AddrOfSplit(SplitHostPort(WithPort(LastCall.host))))

----------------------------------------------------------------------------
(* trustedHostKeyCallback on ziti connections: Dial hands the callback the *)
(* hostname "" and the edge address of the connection, and two connections *)
(* to one router differ in the connId of that address.                     *)

ZitiPeers ==
    {[hostname |-> <<>>, remote |-> ZitiAddr],
     [hostname |-> <<>>, remote |-> ZitiAddr2]}

BeginTrustedZiti(h) ==
    /\ CanBegin(h)
    /\ \E peer \in ZitiPeers, key \in Keys :
         hs' = [hs EXCEPT ![h] =
            [@ EXCEPT !.variant = "trusted", !.hostname = peer.hostname,
                      !.remote = peer.remote, !.key = key, !.pc = "ensure"]]
    /\ UNCHANGED <<exists, file, mode, eol, cbs, calls, goVars>>

ZitiNext ==
    \/ \E h \in Handshakes : BeginTrustedZiti(h)
    \/ \E h \in Handshakes : EnsureKnownHosts(h)
    \/ \E h \in Handshakes : LookupTrusted(h)
    \/ \E h \in Handshakes : AskOperator(h)
    \/ \E h \in Handshakes : ReadAnswer(h)
    \/ \E h \in Handshakes : AddKnownHost1106(h)

ZitiSpec == Init /\ [][ZitiNext]_vars

(* The last k tokens of s.                                                 *)
Suffix(s, k) == SubSeq(s, Len(s) - k + 1, Len(s))

(* Two descriptors that end in the same "host:port" segment, each after a  *)
(* ":" of its own prefix.                                                  *)
SharesTrailingHostPort(a, b) ==
    \E k \in 1..(Len(a) - 1) :
        /\ k < Len(b)
        /\ Suffix(a, k) = Suffix(b, k)
        /\ ContainsTok(Suffix(a, k), ":")
        /\ a[Len(a) - k] = ":"
        /\ b[Len(b) - k] = ":"

(* C24: two connections whose descriptors differ in the connection-scoped  *)
(* prefix only have the same canonical identity, so that a key the         *)
(* operator trusted over the first is Found by the lookup of the second.   *)
C24_TrustedOnceFoundNext ==
    \A h, g \in Handshakes :
        /\ hs[h].variant = "trusted"
        /\ hs[g].variant = "trusted"
        /\ hs[h].appended
        /\ hs[g].seen > hs[h].seen
        /\ hs[g].res \in {"found", "unknown", "mismatch"}
        /\ hs[g].key = hs[h].key
        /\ hs[g].remote # hs[h].remote
        /\ SharesTrailingHostPort(hs[h].remote.str, hs[g].remote.str)
        => /\ AdapterString(hs[g].remote) = AdapterString(hs[h].remote)
           /\ hs[g].res = "found"

(* A descriptor that is absent, or whose string has no ":".                *)
Unparsable(d) == d.isNil \/ ~ContainsTok(d.str, ":")

(* C25: asked for the identity of a descriptor that is absent or has fewer *)
(* than two ":"-separated segments, the adapter returns without a panic.   *)
C25_NoPanicOnBadDescriptor ==
    \A j \in 1..Len(calls) :
        calls[j].op = "String" /\ Unparsable(calls[j].remote) => calls[j].out # "panic"

(* s without the bracket characters at its end.                            *)
RECURSIVE TrimRightBrackets(_)
TrimRightBrackets(s) ==
    IF s # <<>> /\ s[Len(s)] \in {"[", "]"}
    THEN TrimRightBrackets(SubSeq(s, 1, Len(s) - 1))
    ELSE s

(* The last two of the parts, joined by ":".                               *)
LastTwoJoined(parts) ==
    StringsJoin(SubSeq(parts, Len(parts) - 1, Len(parts)), ":")

(* C26: for a descriptor with at least two ":"-separated segments the      *)
(* adapter gives the last two segments joined by ":", less the bracket     *)
(* characters at the end and no others.                                    *)
C26_OnlyTrailingBracketsRemoved ==
    \A j \in 1..Len(calls) :
        calls[j].op = "String" /\ ~Unparsable(calls[j].remote) =>
            /\ calls[j].out = "nil"
            /\ calls[j].str =
                 TrimRightBrackets(LastTwoJoined(StringsSplit(calls[j].remote.str, ":")))

(* The identity of the peer at host and port: "host" on the default port,  *)
(* "[host]:port" on another.                                               *)
Identity(sp) == NormalizeHostPort(sp.host, sp.port)

(* C27: the line addKnownHostEntry1702 has written for a peer called       *)
(* "host:port" has as its pattern the identity of that peer, "host" or     *)
(* "[host]:port", and is an entry for the address a lookup of that peer is *)
(* made for.                                                               *)
C27_AppendWritesIdentity ==
    /\ calls # <<>>
    /\ LastCall.op = "addKnownHostEntry1702"
    /\ LastCall.wrote
    /\ EarlierCallsEndLines
    /\ SplitHostPort(LastCall.host).ok
    => /\ file[Len(file)][1] = StrField(Identity(SplitHostPort(LastCall.host)))
       /\ EntryMatches(ParseLine(file[Len(file)]),
                       AddrOfSplit(SplitHostPort(LastCall.host)))

----------------------------------------------------------------------------
(* The store holds, for handshake h, an entry of the address its lookup is *)
(* made for with the key the peer presented.                               *)
StoreHolds(lines, h) ==
    \E j \in 1..Len(lines) :
        /\ EntryMatches(ParseLine(lines[j]), LookupAddr(h))
        /\ ParseLine(lines[j]).key = hs[h].key

VerificationCallbacks == {"cb1653", "cb1132", "cb1113", "trusted"}

(* The step in which the callback of handshake h returns success.          *)
ReturnsSuccess(h) ==
    /\ hs[h].variant \in VerificationCallbacks
    /\ hs[h].out # "nil"
    /\ hs'[h].out = "nil"

(* C31: trust invariant: in the step in which a verification callback      *)
(* returns success for a host identity and a key, the store holds an entry *)
(* that matches that identity with that key, found by the lookup or        *)
(* appended by the handshake; and no callback returns success when its     *)
(* lookup ended in an error other than unknown key.                        *)
C31_TrustInvariant ==
    [][\A h \in Handshakes :
          ReturnsSuccess(h) =>
              /\ StoreHolds(file', h)
              /\ hs'[h].res \in {"found", "unknown"}]_vars

----------------------------------------------------------------------------
(* Handshake h takes the step that appends, after a lookup that gave       *)
(* NotFound and a trust decision: the callbacks that add on their own      *)
(* decide by reaching their append, trustedHostKeyCallback by the          *)
(* operator's yes.                                                         *)
AppendsAfterLookup(h) ==
    /\ hs[h].variant \in VerificationCallbacks
    /\ hs'[h] # hs[h]
    /\ hs[h].res = "unknown"
    /\ hs[h].variant = "trusted" => hs[h].answer # <<>> /\ AnswerIsYes(hs[h].answer)

(* C32: every line appended to the store is preceded, in the same          *)
(* handshake, by a lookup that gave NotFound and by a trust decision; no   *)
(* step writes a key to the store without a lookup, the steps of           *)
(* EstablishClient before the verified handshake included.                 *)
C32_AppendFollowsLookup ==
    [][Len(file') > Len(file) => \E h \in Handshakes : AppendsAfterLookup(h)]_vars

----------------------------------------------------------------------------
(* GetToken under OIDCFlow: an unbuffered result channel, one goroutine    *)
(* that runs cli.CodeFlow and then sends what it got, and a select on the  *)
(* channel and on the context of OIDCFlow (30 s, cancelled when OIDCFlow   *)
(* returns).                                                               *)

IDTokens == {"id1", "id2"}

(* The state the goroutine specifications start in: no known_hosts file.   *)
GoInit == Init /\ ~exists

CanStartFlow(f) ==
    flows[f].main = "idle" /\ \A e \in 1..(f - 1) : flows[e].main # "idle"

(* GetToken has returned r to OIDCFlow, whose deferred cancel ends the     *)
(* context.                                                                *)
Returned(rec, r) ==
    [rec EXCEPT !.main = "returned", !.ret = r, !.returns = @ + 1,
                !.ctxDone = TRUE]

(* OIDCFlow calls GetToken: a configuration that does not validate is      *)
(* returned as an error, otherwise the goroutine is started and the caller *)
(* reaches the select.                                                     *)
OIDCFlow(f) ==
    /\ CanStartFlow(f)
    /\ \E valid \in BOOLEAN :
         flows' = [flows EXCEPT ![f] =
                     IF valid THEN [@ EXCEPT !.main = "select", !.gor = "codeflow"]
                     ELSE Returned(@, "invalid")]
    /\ UNCHANGED <<storeVars, mfa, factory, shell>>

(* cli.CodeFlow returns the tokens the provider delivered; the goroutine   *)
(* is then at its send.                                                    *)
CodeFlowReturns(f) ==
    /\ flows[f].gor = "codeflow"
    /\ \E t \in IDTokens :
         flows' = [flows EXCEPT ![f].gor = "send", ![f].tokens = t]
    /\ UNCHANGED <<storeVars, mfa, factory, shell>>

(* The 30 seconds of OIDCFlow pass, or its parent context ends.            *)
ContextDone(f) ==
    /\ flows[f].main = "select"
    /\ ~flows[f].ctxDone
    /\ flows' = [flows EXCEPT ![f].ctxDone = TRUE]
    /\ UNCHANGED <<storeVars, mfa, factory, shell>>

(* case tokens := <-resultChan: the send and the receive meet.             *)
ReceiveTokens(f) ==
    /\ flows[f].main = "select"
    /\ flows[f].gor = "send"
    /\ flows' = [flows EXCEPT ![f] = [Returned(@, flows[f].tokens) EXCEPT !.gor = "done"]]
    /\ UNCHANGED <<storeVars, mfa, factory, shell>>

(* case <-ctx.Done()                                                       *)
ReceiveDone(f) ==
    /\ flows[f].main = "select"
    /\ flows[f].ctxDone
    /\ flows' = [flows EXCEPT ![f] = Returned(@, "timeout")]
    /\ UNCHANGED <<storeVars, mfa, factory, shell>>

TokenNext ==
    \E f \in Flows :
        \/ OIDCFlow(f)
        \/ CodeFlowReturns(f)
        \/ ContextDone(f)
        \/ ReceiveTokens(f)
        \/ ReceiveDone(f)

(* The timer of the context fires, a select with a ready case proceeds,    *)
(* and the code flow is granted to return in the end.                      *)
TokenFairness ==
    \A f \in Flows :
        /\ WF_vars(ContextDone(f))
        /\ WF_vars(ReceiveTokens(f) \/ ReceiveDone(f))
        /\ WF_vars(CodeFlowReturns(f))

TokenSpec == GoInit /\ [][TokenNext]_vars /\ TokenFairness

(* What GetToken has returned is what the code flow delivered, or the      *)
(* timeout error with the context done, and it has returned at most once.  *)
GetTokenReturn(f) ==
    /\ flows[f].returns <= 1
    /\ flows[f].ret \in IDTokens => flows[f].ret = flows[f].tokens
    /\ flows[f].ret = "timeout" => flows[f].ctxDone

GoroutineStarted(f) == flows[f].gor # "none"

(* C33: GetToken returns exactly once, with the ID token the code flow     *)
(* delivered or with the timeout error when the context is done, and in    *)
(* both orders the goroutine of the code flow terminates in the end: its   *)
(* send does not block forever once GetToken has returned.                 *)
C33_GetTokenReturnsOnce ==
    /\ [](\A f \in Flows : GetTokenReturn(f))
    /\ \A f \in Flows :
         /\ flows[f].main = "select" ~> flows[f].main = "returned"
         /\ flows[f].main = "returned" /\ GoroutineStarted(f) ~> flows[f].gor = "done"

----------------------------------------------------------------------------
(* RemoveMfa: the listener starts one goroutine each time it fires; the    *)
(* goroutine reads a code, calls RemoveZitiMfa, and sends on the           *)
(* unbuffered done channel that RemoveMfa receives from once.  log.Fatalf  *)
(* ends the process.                                                       *)

(* RemoveMfa adds the listener and calls Auth.                             *)
RemoveMfa ==
    /\ mfa.main = "idle"
    /\ mfa' = [mfa EXCEPT !.main = "auth"]
    /\ UNCHANGED <<storeVars, flows, factory, shell>>

(* The context reaches the fully authenticated state, in Auth or later     *)
(* while RemoveMfa waits: the listener starts a goroutine.                 *)
ListenerFires ==
    /\ mfa.main \in {"auth", "wait"}
    /\ ~mfa.fatal
    /\ mfa.fired < MaxFires
    /\ mfa' = [mfa EXCEPT !.fired = @ + 1, !.g[mfa.fired + 1] = "read"]
    /\ UNCHANGED <<storeVars, flows, factory, shell>>

AuthReturns ==
    /\ mfa.main = "auth"
    /\ ~mfa.fatal
    /\ mfa' = [mfa EXCEPT !.main = "wait"]
    /\ UNCHANGED <<storeVars, flows, factory, shell>>

ReadCode(i) ==
    /\ mfa.g[i] = "read"
    /\ ~mfa.fatal
    /\ mfa' = [mfa EXCEPT !.g[i] = "remove"]
    /\ UNCHANGED <<storeVars, flows, factory, shell>>

(* ctx.RemoveZitiMfa(code): an error ends the process.                     *)
RemoveZitiMfa(i) ==
    /\ mfa.g[i] = "remove"
    /\ ~mfa.fatal
    /\ \E ok \in BOOLEAN :
         mfa' = IF ok
                THEN [mfa EXCEPT !.removes = @ + 1, !.succeeded = @ + 1,
                                 !.g[i] = "send"]
                ELSE [mfa EXCEPT !.removes = @ + 1, !.fatal = TRUE]
    /\ UNCHANGED <<storeVars, flows, factory, shell>>

(* done <- true meets the <-done of RemoveMfa, which returns.              *)
Done(i) ==
    /\ mfa.g[i] = "send"
    /\ mfa.main = "wait"
    /\ ~mfa.fatal
    /\ mfa' = [mfa EXCEPT !.g[i] = "done", !.main = "returned"]
    /\ UNCHANGED <<storeVars, flows, factory, shell>>

MfaNext ==
    \/ RemoveMfa
    \/ ListenerFires
    \/ AuthReturns
    \/ \E i \in Fires : ReadCode(i) \/ RemoveZitiMfa(i) \/ Done(i)

(* Auth returns, a code is read, the call to the controller ends, and a    *)
(* send that meets a receive goes through.                                 *)
MfaFairness ==
    /\ WF_vars(AuthReturns)
    /\ \A i \in Fires :
         /\ WF_vars(ReadCode(i))
         /\ WF_vars(RemoveZitiMfa(i))
         /\ WF_vars(Done(i))

MfaSpec == GoInit /\ [][MfaNext]_vars /\ MfaFairness

(* RemoveMfa returns only after a successful call, and returns once a      *)
(* goroutine is through its call.                                          *)
RemoveMfaReturns ==
    /\ [](mfa.main = "returned" => mfa.succeeded >= 1)
    /\ (\E i \in Fires : mfa.g[i] = "send") ~> (mfa.main = "returned" \/ mfa.fatal)

(* C34: RemoveMfa returns only after a RemoveZitiMfa call has succeeded    *)
(* and returns once the listener has fired and that call is done; however  *)
(* often the listener fires, RemoveZitiMfa is called at most once and no   *)
(* goroutine stays blocked forever at its send on the done channel.        *)
C34_RemoveMfaOnce ==
    /\ RemoveMfaReturns
    /\ [](mfa.removes <= 1)
    /\ \A i \in Fires : mfa.g[i] = "send" ~> (mfa.g[i] = "done" \/ mfa.fatal)

----------------------------------------------------------------------------
(* SshConfigFactoryImpl.Config: resolveAuthOnce.Do runs the resolution of  *)
(* the authentication methods for the first caller, holds every caller     *)
(* that arrives while it runs, and lets callers through once it is done.   *)

CanConfig(k) ==
    /\ factory.callers[k].pc = "idle"
    /\ \A j \in 1..(k - 1) : factory.callers[j].pc # "idle"

Config(k) ==
    /\ CanConfig(k)
    /\ factory' = [factory EXCEPT !.callers[k].pc = "do"]
    /\ UNCHANGED <<storeVars, flows, mfa, shell>>

(* A Do that lets a caller through as soon as another caller has begun     *)
(* the function, running or done.                                          *)
DoReturnsOnceBegun(once) == once # "new"

(* sync.Once: Do returns without calling the function only when an earlier *)
(* call of the function has returned.                                      *)
DoReturns(once) == once = "done"

(* resolveAuthOnce.Do for caller k: the first caller goes on to run the    *)
(* function, a caller that finds it running waits, a caller that finds it  *)
(* done goes on to build the configuration.                                *)
OnceDo(k) ==
    /\ factory.callers[k].pc = "do"
    /\ IF factory.once = "new"
       THEN factory' = [factory EXCEPT !.once = "running",
                                       !.callers[k].pc = "resolve"]
       ELSE IF DoReturns(factory.once)
            THEN factory' = [factory EXCEPT !.callers[k].pc = "afterdo"]
            ELSE /\ ~factory.callers[k].waited
                 /\ factory' = [factory EXCEPT !.callers[k].waited = TRUE]
    /\ UNCHANGED <<storeVars, flows, mfa, shell>>

(* The methods the function collects: the key file's when it can be read,  *)
(* and, when the agent answers, what a second call to the agent gives.     *)
Methods(fileOk, agent, again) ==
    (IF fileOk THEN <<"file">> ELSE <<>>)
        \o (IF agent THEN <<IF again THEN "agent" ELSE "nil">> ELSE <<>>)

(* The function passed to Do, up to factory.authMethods = methods.         *)
ResolveAuth(k) ==
    /\ factory.callers[k].pc = "resolve"
    /\ \E fileOk \in BOOLEAN, agent \in BOOLEAN, again \in BOOLEAN :
         /\ agent \/ ~again
         /\ factory' = [factory EXCEPT !.authMethods = Methods(fileOk, agent, again),
                                       !.resolved = @ + 1,
                                       !.callers[k].pc = "resolved"]
    /\ UNCHANGED <<storeVars, flows, mfa, shell>>

(* The function has returned: the Once is done and Do returns.             *)
OnceDone(k) ==
    /\ factory.callers[k].pc = "resolved"
    /\ factory' = [factory EXCEPT !.once = "done", !.callers[k].pc = "afterdo"]
    /\ UNCHANGED <<storeVars, flows, mfa, shell>>

(* return &ssh.ClientConfig{... Auth: factory.authMethods ...}             *)
ConfigReturns(k) ==
    /\ factory.callers[k].pc = "afterdo"
    /\ factory' = [factory EXCEPT !.callers[k].pc = "returned",
                                  !.callers[k].ret = factory.authMethods]
    /\ UNCHANGED <<storeVars, flows, mfa, shell>>

ConfigNext ==
    \E k \in ConfigCalls :
        \/ Config(k)
        \/ OnceDo(k)
        \/ ResolveAuth(k)
        \/ OnceDone(k)
        \/ ConfigReturns(k)

ConfigSpec == GoInit /\ [][ConfigNext]_vars

ReturnedConfigs == {k \in ConfigCalls : factory.callers[k].pc = "returned"}

----------------------------------------------------------------------------
(* RemoteShell with a command: processOutput adds 2 to a WaitGroup, starts *)
(* one goroutine per stream that copies it to the end and then calls       *)
(* wg.Done, and waits; session.Wait follows.  A copy that fails ends the   *)
(* process in log.Fatalf.                                                  *)

(* session.Start, then processOutput up to wg.Wait: each stream has some   *)
(* chunks to give before its end.                                          *)
RemoteShell ==
    /\ shell.main = "idle"
    /\ \E n \in [Streams -> 0..MaxChunks] :
         shell' = [shell EXCEPT !.main = "wait", !.wg = 2, !.left = n,
                                !.copy = [s \in Streams |-> "copying"]]
    /\ UNCHANGED <<storeVars, flows, mfa, factory>>

(* io.Copy moves one chunk, or fails.                                      *)
CopyChunk(s) ==
    /\ shell.copy[s] = "copying"
    /\ shell.left[s] > 0
    /\ ~shell.fatal
    /\ \E ok \in BOOLEAN :
         shell' = IF ok
                  THEN [shell EXCEPT !.left[s] = @ - 1, !.read[s] = @ + 1]
                  ELSE [shell EXCEPT !.fatal = TRUE]
    /\ UNCHANGED <<storeVars, flows, mfa, factory>>

(* io.Copy reaches the end of the stream and returns; the deferred wg.Done *)
(* runs.                                                                   *)
CopyEnds(s) ==
    /\ shell.copy[s] = "copying"
    /\ shell.left[s] = 0
    /\ ~shell.fatal
    /\ shell' = [shell EXCEPT !.copy[s] = "done", !.wg = @ - 1,
                              !.order = Append(@, s)]
    /\ UNCHANGED <<storeVars, flows, mfa, factory>>

(* A Wait that unblocks with one Done still to come, as after wg.Add(1).   *)
WaitUnblocksAtOne(n) == n <= 1

(* wg.Wait unblocks when the counter is zero.                              *)
WaitUnblocks(n) == n = 0

(* wg.Wait returns and processOutput with it.                              *)
WgWait ==
    /\ shell.main = "wait"
    /\ WaitUnblocks(shell.wg)
    /\ ~shell.fatal
    /\ shell' = [shell EXCEPT !.main = "processed"]
    /\ UNCHANGED <<storeVars, flows, mfa, factory>>

(* session.Wait(); a command that failed ends the process.                 *)
SessionWait ==
    /\ shell.main = "processed"
    /\ ~shell.fatal
    /\ \E ok \in BOOLEAN :
         shell' = [shell EXCEPT !.main = "waited", !.fatal = ~ok]
    /\ UNCHANGED <<storeVars, flows, mfa, factory>>

ShellNext ==
    \/ RemoteShell
    \/ \E s \in Streams : CopyChunk(s) \/ CopyEnds(s)
    \/ WgWait
    \/ SessionWait

ShellSpec == GoInit /\ [][ShellNext]_vars

Drained(s) == shell.copy[s] = "done" /\ shell.left[s] = 0

(* C36: processOutput has returned only when both the stdout copy and the  *)
(* stderr copy have finished, in whichever order they finish, so           *)
(* RemoteShell with a command calls session.Wait only after both streams   *)
(* are drained.                                                            *)
C36_WaitAfterBothCopies ==
    shell.main \in {"processed", "waited"} => \A s \in Streams : Drained(s)

(* session.Wait has been called after stderr ended first and stdout, with  *)
(* chunks copied, after it.                                                *)
C36_Witness ==
    /\ shell.main = "waited"
    /\ shell.order = <<"stderr", "stdout">>
    /\ shell.read["stdout"] >= 2
    /\ shell.read["stderr"] >= 1

====
